---- MODULE Spec2Model ----
(***************************************************************************)
(* State-machine model of the FinAI dashboard front end.                   *)
(*                                                                         *)
(* Exactly one page component is mounted at a time (routing is one page    *)
(* per URL), so `page` selects the component and the remaining variables   *)
(* are that component's useState cells, the requests it has in flight and  *)
(* the timers it has armed.  Every action is one event-loop task: a DOM    *)
(* event handler up to its first await, the continuation of an async       *)
(* function after an await settles, or a timer callback.                   *)
(*                                                                         *)
(* The presentational functions (risk level, average-risk label,           *)
(* formatCallTitle) are studied apart from the pages, in SpecRisk,         *)
(* SpecLabel and SpecTitle: `props` is the value handed to the function    *)
(* and `rendered` what each view that has been rendered computed from it.  *)
(***************************************************************************)
EXTENDS Integers, Sequences, FiniteSets, TLC

VARIABLES
    page,               \* route of the mounted page component
    loading,            \* useState `loading` of the mounted page
    error,              \* useState `error` (ReportsPage, AnalyticsPage, ReportDetailPage)
    reports,            \* useState `reports` (Home, ReportsPage)
    summary,            \* useState `summary` (Home, AnalyticsPage); 0 is null
    trends,             \* useState `trends` (AnalyticsPage); 0 is null
    isAnalyzing,        \* useState `isAnalyzing` (Home)
    report,             \* useState `report` (ReportDetailPage); 0 is null
    reportId,           \* useParams().id (ReportDetailPage)
    showCallerHistory,  \* useState (ReportDetailPage)
    callerHistory,      \* useState (ReportDetailPage)
    loadingHistory,     \* useState (ReportDetailPage)
    loads,              \* async page-load functions awaiting their fetches, in call order
    histories,          \* handleShowCallerHistory calls awaiting their fetch, in call order
    messages,           \* useState `messages` (QueryPage)
    input,              \* useState `input` (QueryPage)
    suggestions,        \* useState `suggestions` (QueryPage)
    sugFetch,           \* state of the fetchQuerySuggestions promise (QueryPage)
    sessionId,          \* useState `sessionId` (QueryPage)
    queries,            \* sendQuery requests in flight (QueryPage)
    exporting,          \* useState `exporting` (AnalyticsPage)
    exportMsg,          \* useState `exportMsg` (AnalyticsPage)
    exports,            \* exportCSV requests in flight (AnalyticsPage)
    attempts,           \* history: export attempts started (AnalyticsPage)
    timers,             \* armed setTimeout callbacks, as their due times
    now,                \* the clock, in ms
    msgSetAt,           \* history: the time at which exportMsg was last set to a text
    last,               \* history: the handler that ran last and what it did
    props,              \* the value handed to a presentational function or component
    rendered            \* what each view computed from props

vars == <<page, loading, error, reports, summary, trends, isAnalyzing, report,
          reportId, showCallerHistory, callerHistory, loadingHistory, loads,
          histories, messages, input, suggestions, sugFetch, sessionId, queries,
          exporting, exportMsg, exports, attempts, timers, now, msgSetAt, last,
          props, rendered>>

pageVars == <<loading, error, reports, summary, trends, isAnalyzing, report,
              reportId, showCallerHistory, callerHistory, loadingHistory, loads,
              histories>>
chatVars == <<messages, input, suggestions, sugFetch, sessionId, queries>>
exportVars == <<exporting, exportMsg, exports, attempts, timers, now, msgSetAt>>
renderVars == <<props, rendered>>

----------------------------------------------------------------------------
(* Bounds *)

MaxMessages == 6        \* longest transcript explored
MaxPayload == 2         \* payload versions a fetch can return (0 is null / empty)
MaxRefresh == 1         \* Home.handleAudioAnalyzed calls explored
MaxIdChanges == 1       \* changes of the report id explored
MaxHistoryPresses == 2  \* presses of the Caller History button explored
MaxExports == 2         \* export attempts explored
MaxTime == 7000         \* the clock stops here

----------------------------------------------------------------------------
(* Values *)

\* JS null / undefined in a string-typed cell
None == "<null>"

\* JS null in an object-typed cell; objects are numbered from 1
Null == 0

\* Texts are sequences of characters so that trim() can be computed.
IsSpace(c) == c \in {" ", "\t"}

InputTexts == {<<>>, <<" ">>, <<"a">>, <<" ", "b", " ">>}

SuggestionCatalogs ==
    { <<>>,
      << [text |-> <<"s">>, category |-> "risk"],
         [text |-> <<" ">>, category |-> "other"] >> }

SessionTokens == {"query_1_aaaaaa", "query_2_bbbbbb"}

\* What sendQuery can resolve with: no object, an object without usable
\* answer, an object with an answer.
Responses ==
    { [defined |-> FALSE, answer |-> <<>>],
      [defined |-> TRUE, answer |-> <<>>],
      [defined |-> TRUE, answer |-> <<"r">>] }

FallbackText == <<"I wasn't able to process that question. Please try again.">>
ApologyText == <<"Something went wrong. Please make sure the backend is running and try again.">>

----------------------------------------------------------------------------
(* QueryPage *)

RECURSIVE TrimStart(_)
TrimStart(s) ==
    IF s = <<>> THEN <<>>
    ELSE IF IsSpace(Head(s)) THEN TrimStart(Tail(s)) ELSE s

RECURSIVE TrimEnd(_)
TrimEnd(s) ==
    IF s = <<>> THEN <<>>
    ELSE IF IsSpace(s[Len(s)]) THEN TrimEnd(SubSeq(s, 1, Len(s) - 1)) ELSE s

Trim_Identity(s) == s

\* String.prototype.trim
Trim(s) == TrimEnd(TrimStart(s))

\* `question || input`; an absent question is the empty text, which `||`
\* treats like undefined
QuestionOrInput(question) == IF question # <<>> THEN question ELSE input

\* (question || input).trim()
EffectiveText(question) == Trim(QuestionOrInput(question))

SendRejected_LoadingIgnored(q) == q = <<>>

\* `if (!q || loading) return;`
SendRejected(q) == q = <<>> \/ loading

QueryRequest_FreshToken(q) ==
    [q |-> q, sessionId |-> CHOOSE t \in SessionTokens : t # sessionId]

\* sendQuery(q, sessionId)
QueryRequest(q) == [q |-> q, sessionId |-> sessionId]

handleSend_Refetch(question, via) ==
    LET q == EffectiveText(question) IN
    IF SendRejected(q)
    THEN /\ UNCHANGED chatVars
         /\ UNCHANGED loading
         /\ last' = [op |-> "handleSend", via |-> via,
                     did |-> IF loading THEN "ignored-loading" ELSE "ignored-empty"]
    ELSE /\ Len(messages) + 2 <= MaxMessages
         /\ messages' = Append(messages, [role |-> "user", content |-> q])
         /\ input' = <<>>
         /\ loading' = TRUE
         /\ queries' = Append(queries, QueryRequest(q))
         /\ sugFetch' = "pending"
         /\ UNCHANGED <<suggestions, sessionId>>
         /\ last' = [op |-> "handleSend", via |-> via, did |-> "sent"]

\* handleSend up to its await
handleSend(question, via) ==
    LET q == EffectiveText(question) IN
    IF SendRejected(q)
    THEN /\ UNCHANGED chatVars
         /\ UNCHANGED loading
         /\ last' = [op |-> "handleSend", via |-> via,
                     did |-> IF loading THEN "ignored-loading" ELSE "ignored-empty"]
    ELSE /\ Len(messages) + 2 <= MaxMessages
         /\ messages' = Append(messages, [role |-> "user", content |-> q])
         /\ input' = <<>>
         /\ loading' = TRUE
         /\ queries' = Append(queries, QueryRequest(q))
         /\ UNCHANGED <<suggestions, sugFetch, sessionId>>
         /\ last' = [op |-> "handleSend", via |-> via, did |-> "sent"]

\* attributes of the rendered controls
InputDisabled == loading
SendButtonDisabled == loading \/ Trim(input) = <<>>
WelcomeShown == Len(messages) = 0
QuickSuggestionsShown == Len(messages) > 0 /\ Len(messages) < 4
QuickSuggestionsDisabled == loading

chatFrame == UNCHANGED <<page, error, reports, summary, trends, isAnalyzing,
                         report, reportId, showCallerHistory, callerHistory,
                         loadingHistory, loads, histories, exporting, exportMsg,
                         exports, attempts, timers, now, msgSetAt, props, rendered>>

\* onChange of the input field
TypeInput ==
    /\ page = "/query"
    /\ ~InputDisabled
    /\ \E t \in InputTexts :
          /\ t # input
          /\ input' = t
    /\ last' = [op |-> "setInput", via |-> "input", did |-> "typed"]
    /\ UNCHANGED <<messages, suggestions, sugFetch, sessionId, queries, loading>>
    /\ chatFrame

\* The handlers below are run in every state in which their control is
\* rendered, whether or not the control is disabled: handleSend carries its
\* own guard, and that guard is what is modelled.

\* onClick of the Send button
ClickSend ==
    /\ page = "/query"
    /\ handleSend(<<>>, "send-button")
    /\ chatFrame

\* handleKeyDown with Enter and no Shift
PressEnter ==
    /\ page = "/query"
    /\ handleSend(<<>>, "enter-key")
    /\ chatFrame

\* onClick of a welcome-screen suggestion
ClickWelcomeSuggestion ==
    /\ page = "/query"
    /\ WelcomeShown
    /\ \E i \in 1..Len(suggestions) : handleSend(suggestions[i].text, "welcome")
    /\ chatFrame

\* onClick of a quick suggestion (the first five)
ClickQuickSuggestion ==
    /\ page = "/query"
    /\ QuickSuggestionsShown
    /\ \E i \in 1..Len(suggestions) :
          /\ i <= 5
          /\ handleSend(suggestions[i].text, "quick")
    /\ chatFrame

BotContent_NoFallback(response) == response.answer

\* response?.answer || "I wasn't able to process that question. ..."
BotContent(response) ==
    IF response.defined /\ response.answer # <<>> THEN response.answer ELSE FallbackText

OnQueryRejected_Swallowed(msgs) == msgs

\* the catch block of handleSend
OnQueryRejected(msgs) == Append(msgs, [role |-> "bot", content |-> ApologyText])

\* sendQuery resolves: the rest of the try block, then finally
QueryResolved ==
    /\ page = "/query"
    /\ queries # <<>>
    /\ \E i \in 1..Len(queries), response \in Responses :
          /\ messages' = Append(messages, [role |-> "bot", content |-> BotContent(response)])
          /\ queries' = SubSeq(queries, 1, i - 1) \o SubSeq(queries, i + 1, Len(queries))
          /\ last' = [op |-> "sendQuery", via |-> "resolved",
                      did |-> IF ~response.defined THEN "no-response"
                              ELSE IF response.answer = <<>> THEN "no-answer"
                              ELSE "answer"]
    /\ loading' = FALSE
    /\ UNCHANGED <<input, suggestions, sugFetch, sessionId>>
    /\ chatFrame

\* sendQuery rejects: catch, then finally
QueryRejected ==
    /\ page = "/query"
    /\ queries # <<>>
    /\ \E i \in 1..Len(queries) :
          queries' = SubSeq(queries, 1, i - 1) \o SubSeq(queries, i + 1, Len(queries))
    /\ messages' = OnQueryRejected(messages)
    /\ loading' = FALSE
    /\ last' = [op |-> "sendQuery", via |-> "rejected", did |-> "apology"]
    /\ UNCHANGED <<input, suggestions, sugFetch, sessionId>>
    /\ chatFrame

\* fetchQuerySuggestions().then(setSuggestions)
SuggestionsResolved ==
    /\ page = "/query"
    /\ sugFetch = "pending"
    /\ sugFetch' = "resolved"
    /\ \E c \in SuggestionCatalogs : suggestions' = c
    /\ last' = [op |-> "fetchQuerySuggestions", via |-> "resolved", did |-> "stored"]
    /\ UNCHANGED <<messages, input, sessionId, queries, loading>>
    /\ chatFrame

\* fetchQuerySuggestions rejects: there is no handler, nothing is stored
SuggestionsRejected ==
    /\ page = "/query"
    /\ sugFetch = "pending"
    /\ sugFetch' = "rejected"
    /\ last' = [op |-> "fetchQuerySuggestions", via |-> "rejected", did |-> "nothing"]
    /\ UNCHANGED <<messages, input, suggestions, sessionId, queries, loading>>
    /\ chatFrame

----------------------------------------------------------------------------
(* Fetches and the async functions that await them *)

\* the state of one fetch promise; val is the payload once resolved
Pending == [st |-> "pending", val |-> 0]
NotIssued == [st |-> "none", val |-> 0]
Resolved(v) == [st |-> "resolved", val |-> v]
Rejected == [st |-> "rejected", val |-> 0]

\* what a fetch can settle with: any payload (0 is null, or the empty list
\* for a list endpoint), or a rejection
Outcomes == {Resolved(v) : v \in 0..MaxPayload} \cup {Rejected}

\* one running call of an async page function: slot a is its first (or
\* only) fetch, slot b its second; done says its continuation has run
Call(fn, arg, two) ==
    [fn |-> fn, arg |-> arg, a |-> Pending,
     b |-> IF two THEN Pending ELSE NotIssued, done |-> FALSE]

AllResolved(c) == c.a.st = "resolved" /\ c.b.st \in {"resolved", "none"}

Awaited_FirstResolved(c) ==
    IF c.a.st = "rejected" \/ c.b.st = "rejected" THEN "rejected"
    ELSE IF c.a.st = "resolved" THEN "fulfilled"
    ELSE "pending"

\* `await Promise.all([...])` (or a single await): rejected as soon as one
\* fetch rejects, fulfilled once every fetch has resolved
Awaited(c) ==
    IF c.a.st = "rejected" \/ c.b.st = "rejected" THEN "rejected"
    ELSE IF AllResolved(c) THEN "fulfilled"
    ELSE "pending"

Slot(c, slot) == IF slot = "a" THEN c.a ELSE c.b

WithSlot(c, slot, outcome) ==
    IF slot = "a" THEN [c EXCEPT !.a = outcome] ELSE [c EXCEPT !.b = outcome]

\* the continuation of call c runs in the step in which its await settles
Resumes(c, c1) == ~c.done /\ Awaited(c1) # "pending"

Settle_Retry(i, slot, outcome) ==
    LET c == loads[i]
        c1 == WithSlot(c, slot, outcome)
        settled == [loads EXCEPT ![i] = [c1 EXCEPT !.done = c.done \/ Resumes(c, c1)]]
    IN  /\ Slot(c, slot).st = "pending"
        /\ loads' = IF outcome = Rejected
                     THEN Append(settled, Call(c.fn, c.arg, c.b.st # "none"))
                     ELSE settled

\* a fetch of call i settles; the call is marked done when it resumes
Settle(i, slot, outcome) ==
    LET c == loads[i]
        c1 == WithSlot(c, slot, outcome)
    IN  /\ Slot(c, slot).st = "pending"
        /\ loads' = [loads EXCEPT ![i] = [c1 EXCEPT !.done = c.done \/ Resumes(c, c1)]]

\* a list payload of n reports
ReportList(n) == [k \in 1..n |-> k]

CallsOf(fn) == {i \in 1..Len(loads) : loads[i].fn = fn}

pageFrame == UNCHANGED <<page, last, messages, input, suggestions, sugFetch, sessionId,
                         queries, exporting, exportMsg, exports, attempts, timers,
                         now, msgSetAt, props, rendered>>

----------------------------------------------------------------------------
(* Home *)

\* try block after the await: setReports, setSummary; finally (loadData only)
HomeThen(c) ==
    /\ reports' = ReportList(c.a.val)
    /\ summary' = c.b.val
    /\ loading' = IF c.fn = "Home.loadData" THEN FALSE ELSE loading

HomeCatch_ClearsData(c) ==
    /\ reports' = <<>>
    /\ summary' = Null
    /\ loading' = IF c.fn = "Home.loadData" THEN FALSE ELSE loading

\* catch: console.error only; finally (loadData only)
HomeCatch(c) ==
    /\ loading' = IF c.fn = "Home.loadData" THEN FALSE ELSE loading
    /\ UNCHANGED <<reports, summary>>

\* a fetch of Home.loadData or Home.handleAudioAnalyzed settles
HomeFetchSettles ==
    /\ page = "/"
    /\ \E i \in 1..Len(loads), slot \in {"a", "b"}, outcome \in Outcomes :
          LET c == loads[i]
              c1 == WithSlot(c, slot, outcome)
          IN  /\ Settle(i, slot, outcome)
              /\ IF ~Resumes(c, c1) THEN UNCHANGED <<reports, summary, loading>>
                 ELSE IF Awaited(c1) = "fulfilled" THEN HomeThen(c1)
                 ELSE HomeCatch(c1)
    /\ UNCHANGED <<error, trends, isAnalyzing, report, reportId, showCallerHistory,
                   callerHistory, loadingHistory, histories>>
    /\ pageFrame

\* AudioUpload calls onAnalyzed: handleAudioAnalyzed up to its await
AudioAnalyzed ==
    /\ page = "/"
    /\ Cardinality(CallsOf("Home.handleAudioAnalyzed")) < MaxRefresh
    /\ isAnalyzing' = FALSE
    /\ loads' = Append(loads, Call("Home.handleAudioAnalyzed", 0, TRUE))
    /\ UNCHANGED <<loading, error, reports, summary, trends, report, reportId,
                   showCallerHistory, callerHistory, loadingHistory, histories>>
    /\ pageFrame

\* Home renders no error view
HomeErrorShown == FALSE

\* the views Home shows: the stat cards are always rendered; the recent
\* reports or the empty state only with !loading; there is no loading view
HomeViews == IF loading THEN {} ELSE {"data"}

----------------------------------------------------------------------------
(* ReportsPage *)

ReportsThen(c) ==
    /\ reports' = ReportList(c.a.val)
    /\ loading' = FALSE
    /\ UNCHANGED error

ReportsCatch_NoError(c) ==
    /\ loading' = FALSE
    /\ UNCHANGED <<reports, error>>

\* catch: setError; finally: setLoading(false)
ReportsCatch(c) ==
    /\ error' = "Failed to load reports"
    /\ loading' = FALSE
    /\ UNCHANGED reports

\* fetchReports of ReportsPage.loadReports settles
ReportsFetchSettles ==
    /\ page = "/reports"
    /\ \E i \in 1..Len(loads), outcome \in Outcomes :
          LET c == loads[i]
              c1 == WithSlot(c, "a", outcome)
          IN  /\ Settle(i, "a", outcome)
              /\ IF ~Resumes(c, c1) THEN UNCHANGED <<reports, error, loading>>
                 ELSE IF Awaited(c1) = "fulfilled" THEN ReportsThen(c1)
                 ELSE ReportsCatch(c1)
    /\ UNCHANGED <<summary, trends, isAnalyzing, report, reportId, showCallerHistory,
                   callerHistory, loadingHistory, histories>>
    /\ pageFrame

\* {error && <banner>}
ReportsErrorShown == error # None

\* the views ReportsPage shows: {loading && ...}, {error && ...},
\* {!loading && reports.length === 0 && ...}, {!loading && reports.length > 0 && ...}
ReportsViews ==
    (IF loading THEN {"loading"} ELSE {})
        \cup (IF ReportsErrorShown THEN {"error"} ELSE {})
        \cup (IF ~loading /\ Len(reports) = 0 THEN {"empty"} ELSE {})
        \cup (IF ~loading /\ Len(reports) > 0 THEN {"data"} ELSE {})

----------------------------------------------------------------------------
(* AnalyticsPage: loading *)

AnalyticsThen(c) ==
    /\ summary' = c.a.val
    /\ trends' = c.b.val
    /\ loading' = FALSE
    /\ UNCHANGED error

AnalyticsCatch(c) ==
    /\ error' = "Failed to load analytics data"
    /\ loading' = FALSE
    /\ UNCHANGED <<summary, trends>>

\* a fetch of AnalyticsPage.loadData settles
AnalyticsFetchSettles ==
    /\ page = "/analytics"
    /\ \E i \in 1..Len(loads), slot \in {"a", "b"}, outcome \in Outcomes :
          LET c == loads[i]
              c1 == WithSlot(c, slot, outcome)
          IN  /\ Settle(i, slot, outcome)
              /\ IF ~Resumes(c, c1) THEN UNCHANGED <<summary, trends, error, loading>>
                 ELSE IF Awaited(c1) = "fulfilled" THEN AnalyticsThen(c1)
                 ELSE AnalyticsCatch(c1)
    /\ UNCHANGED <<reports, isAnalyzing, report, reportId, showCallerHistory,
                   callerHistory, loadingHistory, histories>>
    /\ pageFrame

AnalyticsView_ErrorOnly ==
    IF loading THEN "loading"
    ELSE IF error # None THEN "error"
    ELSE "data"

\* if (loading) ...; if (error || !summary) ...; else the charts
AnalyticsView ==
    IF loading THEN "loading"
    ELSE IF error # None \/ summary = Null THEN "error"
    ELSE "data"

----------------------------------------------------------------------------
(* ReportDetailPage *)

ReportIds == {1, 2}

DetailThen(c) ==
    /\ report' = c.a.val
    /\ loading' = FALSE
    /\ UNCHANGED error

DetailCatch_ClearsReport(c) ==
    /\ error' = "Failed to load report"
    /\ report' = Null
    /\ loading' = FALSE

\* catch: setError; finally: setLoading(false)
DetailCatch(c) ==
    /\ error' = "Failed to load report"
    /\ loading' = FALSE
    /\ UNCHANGED report

\* fetchReport(reportId) answers with that report, with null, or rejects
ReportOutcomes(id) == {Resolved(id), Resolved(Null), Rejected}

\* fetchReport of loadReport settles; a null payload is thrown into catch
ReportFetchSettles ==
    /\ page = "/reports/[id]"
    /\ \E i \in CallsOf("ReportDetailPage.loadReport") :
       \E outcome \in ReportOutcomes(loads[i].arg) :
          LET c == loads[i]
              c1 == WithSlot(c, "a", outcome)
          IN  /\ Settle(i, "a", outcome)
              /\ IF Awaited(c1) = "fulfilled" /\ c1.a.val # Null
                 THEN DetailThen(c1) ELSE DetailCatch(c1)
    /\ UNCHANGED <<reports, summary, trends, isAnalyzing, reportId, showCallerHistory,
                   callerHistory, loadingHistory, histories>>
    /\ pageFrame

ChangeReportId_ResetsLoading ==
    /\ page = "/reports/[id]"
    /\ Cardinality(CallsOf("ReportDetailPage.loadReport")) < 1 + MaxIdChanges
    /\ \E id \in ReportIds :
          /\ id # reportId
          /\ reportId' = id
          /\ loads' = Append(loads, Call("ReportDetailPage.loadReport", id, FALSE))
    /\ loading' = TRUE
    /\ UNCHANGED <<error, reports, summary, trends, isAnalyzing, report,
                   showCallerHistory, callerHistory, loadingHistory, histories>>
    /\ pageFrame

\* the id in the URL changes: the effect runs again with the new id
ChangeReportId ==
    /\ page = "/reports/[id]"
    /\ Cardinality(CallsOf("ReportDetailPage.loadReport")) < 1 + MaxIdChanges
    /\ \E id \in ReportIds :
          /\ id # reportId
          /\ reportId' = id
          /\ loads' = Append(loads, Call("ReportDetailPage.loadReport", id, FALSE))
    /\ UNCHANGED <<loading, error, reports, summary, trends, isAnalyzing, report,
                   showCallerHistory, callerHistory, loadingHistory, histories>>
    /\ pageFrame

\* if (loading) ...; if (error || !report) ...; else the report
DetailView ==
    IF loading THEN "loading"
    ELSE IF error # None \/ report = Null THEN "error"
    ELSE "data"

\* onClick of the Caller History button: handleShowCallerHistory up to its await
ShowCallerHistory ==
    /\ page = "/reports/[id]"
    /\ DetailView = "data"
    /\ Len(histories) < MaxHistoryPresses
    /\ IF report = Null
       THEN UNCHANGED <<showCallerHistory, loadingHistory, histories>>
       ELSE /\ showCallerHistory' = TRUE
            /\ loadingHistory' = TRUE
            /\ histories' = Append(histories,
                   Call("ReportDetailPage.handleShowCallerHistory", report, FALSE))
    /\ UNCHANGED <<loading, error, reports, summary, trends, isAnalyzing, report,
                   reportId, callerHistory, loads>>
    /\ pageFrame

HistoryThen(c) ==
    /\ callerHistory' = ReportList(c.a.val)
    /\ loadingHistory' = FALSE

HistoryCatch_ClearsHistory(c) ==
    /\ loadingHistory' = FALSE
    /\ callerHistory' = <<>>

\* catch: console.error only; finally: setLoadingHistory(false)
HistoryCatch(c) ==
    /\ loadingHistory' = FALSE
    /\ UNCHANGED callerHistory

\* fetchCallerHistory of handleShowCallerHistory settles
HistoryFetchSettles ==
    /\ page = "/reports/[id]"
    /\ \E i \in 1..Len(histories), outcome \in Outcomes :
          LET c == histories[i]
              c1 == WithSlot(c, "a", outcome)
          IN  /\ c.a.st = "pending"
              /\ histories' = [histories EXCEPT ![i] = [c1 EXCEPT !.done = TRUE]]
              /\ IF Awaited(c1) = "fulfilled" THEN HistoryThen(c1) ELSE HistoryCatch(c1)
    /\ UNCHANGED <<loading, error, reports, summary, trends, isAnalyzing, report,
                   reportId, showCallerHistory, loads>>
    /\ pageFrame

\* onClick of the panel's close control
CloseCallerHistory ==
    /\ page = "/reports/[id]"
    /\ DetailView = "data"
    /\ showCallerHistory
    /\ showCallerHistory' = FALSE
    /\ UNCHANGED <<loading, error, reports, summary, trends, isAnalyzing, report,
                   reportId, callerHistory, loadingHistory, loads, histories>>
    /\ pageFrame

----------------------------------------------------------------------------
(* AnalyticsPage: CSV export *)

DismissDelayMs == 4000
TickMs == 1000

\* what exportCSV resolves with
ExportResults ==
    { [success |-> TRUE, error |-> None],
      [success |-> FALSE, error |-> "Server error"],
      [success |-> FALSE, error |-> None] }

ExportText_NoDefault(result) ==
    IF result.success THEN "CSV downloaded successfully!" ELSE result.error

\* result.success ? "CSV downloaded successfully!" : result.error || "Export failed"
ExportText(result) ==
    IF result.success THEN "CSV downloaded successfully!"
    ELSE IF result.error # None THEN result.error
    ELSE "Export failed"

exportFrame == UNCHANGED <<page, loading, error, reports, summary, trends, isAnalyzing,
                           report, reportId, showCallerHistory, callerHistory,
                           loadingHistory, loads, histories, messages, input,
                           suggestions, sugFetch, sessionId, queries, props, rendered>>

\* <button onClick={handleExportCSV} disabled={exporting}>
ExportButtonDisabled == exporting

\* onClick of the Download CSV button (disabled while exporting):
\* handleExportCSV up to its await
ClickExport ==
    /\ page = "/analytics"
    /\ AnalyticsView = "data"
    /\ ~ExportButtonDisabled
    /\ attempts < MaxExports
    /\ exporting' = TRUE
    /\ exportMsg' = None
    /\ exports' = exports + 1
    /\ attempts' = attempts + 1
    /\ UNCHANGED <<timers, now, msgSetAt, last>>
    /\ exportFrame

\* exportCSV resolves: the rest of handleExportCSV
ExportSettles ==
    /\ page = "/analytics"
    /\ exports > 0
    /\ \E result \in ExportResults :
          /\ exportMsg' = ExportText(result)
          /\ last' = [op |-> "exportCSV",
                      via |-> IF result.success THEN "success" ELSE "failure",
                      did |-> result.error]
    /\ exporting' = FALSE
    /\ exports' = exports - 1
    /\ msgSetAt' = now
    /\ timers' = Append(timers, now + DismissDelayMs)
    /\ UNCHANGED <<attempts, now>>
    /\ exportFrame

\* a setTimeout callback runs when it is due: setExportMsg(null)
TimerFires ==
    /\ page = "/analytics"
    /\ \E i \in 1..Len(timers) :
          /\ timers[i] = now
          /\ timers' = SubSeq(timers, 1, i - 1) \o SubSeq(timers, i + 1, Len(timers))
    /\ exportMsg' = None
    /\ UNCHANGED <<exporting, exports, attempts, now, msgSetAt, last>>
    /\ exportFrame

\* the next instant at which something can happen: a tick later, or sooner
\* when a callback falls due before that
NextInstant ==
    LET due == {timers[i] : i \in 1..Len(timers)} \cup {now + TickMs}
    IN  CHOOSE t \in due : \A u \in due : t <= u

\* time passes; a due callback runs before the clock moves on
Tick ==
    /\ page = "/analytics"
    /\ AnalyticsView = "data"
    /\ NextInstant <= MaxTime
    /\ \A i \in 1..Len(timers) : timers[i] > now
    /\ now' = NextInstant
    /\ UNCHANGED <<exporting, exportMsg, exports, attempts, timers, msgSetAt, last>>
    /\ exportFrame

----------------------------------------------------------------------------
(* Mounting *)

NoLast == [op |-> "mount", via |-> "none", did |-> "none"]

\* cells a page does not have keep these values
NoPageState ==
    /\ error = None /\ reports = <<>> /\ summary = Null /\ trends = Null
    /\ isAnalyzing = FALSE /\ report = Null /\ reportId = 0
    /\ showCallerHistory = FALSE /\ callerHistory = <<>> /\ loadingHistory = FALSE
    /\ histories = <<>>

NoChatState ==
    /\ messages = <<>> /\ input = <<>> /\ suggestions = <<>>
    /\ sugFetch = "none" /\ sessionId = None /\ queries = <<>>

NoExportState ==
    /\ exporting = FALSE /\ exportMsg = None /\ exports = 0 /\ attempts = 0
    /\ timers = <<>> /\ now = 0 /\ msgSetAt = -1

\* QueryPage after its first render and effects
InitQuery ==
    /\ page = "/query"
    /\ messages = <<>>
    /\ input = <<>>
    /\ loading = FALSE
    /\ suggestions = <<>>
    /\ sugFetch = "pending"
    /\ sessionId \in SessionTokens
    /\ queries = <<>>
    /\ loads = <<>>
    /\ NoPageState /\ NoExportState

\* Home after its first render and effects: loadData is awaiting both fetches
InitHome ==
    /\ page = "/"
    /\ loading = TRUE
    /\ loads = << Call("Home.loadData", 0, TRUE) >>
    /\ NoPageState /\ NoChatState /\ NoExportState

InitReports ==
    /\ page = "/reports"
    /\ loading = TRUE
    /\ loads = << Call("ReportsPage.loadReports", 0, FALSE) >>
    /\ NoPageState /\ NoChatState /\ NoExportState

InitAnalytics ==
    /\ page = "/analytics"
    /\ loading = TRUE
    /\ loads = << Call("AnalyticsPage.loadData", 0, TRUE) >>
    /\ NoPageState /\ NoChatState /\ NoExportState

InitDetail ==
    /\ page = "/reports/[id]"
    /\ loading = TRUE
    /\ error = None /\ reports = <<>> /\ summary = Null /\ trends = Null
    /\ isAnalyzing = FALSE /\ report = Null
    /\ reportId \in ReportIds
    /\ showCallerHistory = FALSE /\ callerHistory = <<>> /\ loadingHistory = FALSE
    /\ histories = <<>>
    /\ loads = << Call("ReportDetailPage.loadReport", reportId, FALSE) >>
    /\ NoChatState /\ NoExportState

Init ==
    /\ \/ InitHome
       \/ InitReports
       \/ InitAnalytics
       \/ InitDetail
       \/ InitQuery
    /\ last = NoLast
    /\ props = Null /\ rendered = Null

Next ==
    \/ HomeFetchSettles
    \/ AudioAnalyzed
    \/ ReportsFetchSettles
    \/ AnalyticsFetchSettles
    \/ ReportFetchSettles
    \/ ChangeReportId
    \/ ShowCallerHistory
    \/ HistoryFetchSettles
    \/ CloseCallerHistory
    \/ ClickExport
    \/ ExportSettles
    \/ TimerFires
    \/ Tick
    \/ TypeInput
    \/ ClickSend
    \/ PressEnter
    \/ ClickWelcomeSuggestion
    \/ ClickQuickSuggestion
    \/ QueryResolved
    \/ QueryRejected
    \/ SuggestionsResolved
    \/ SuggestionsRejected

Spec == Init /\ [][Next]_vars

\* a request that is in flight settles
FairSpec ==
    /\ Spec
    /\ WF_vars(QueryResolved \/ QueryRejected)

----------------------------------------------------------------------------
(* Risk level of a report, as each view derives it *)

MaxScore == 100         \* largest risk score explored

HighThreshold == 65
MediumThreshold == 35

RiskLevels == {"low", "medium", "high"}

\* a Report as far as its risk is concerned; has_score is false when
\* risk_score is undefined, risk_level is None when it is undefined
ReportInputs ==
    [has_score : BOOLEAN, risk_score : 0..MaxScore, risk_level : RiskLevels \cup {None}]

\* report.risk_score || 0
RiskScoreOrZero(r) == IF r.has_score THEN r.risk_score ELSE 0

\* riskScore >= 65 ? "high" : riskScore >= 35 ? "medium" : "low"
LevelOfScore_StrictHigh(riskScore) ==
    IF riskScore > HighThreshold THEN "high"
    ELSE IF riskScore >= MediumThreshold THEN "medium"
    ELSE "low"

LevelOfScore(riskScore) ==
    IF riskScore >= HighThreshold THEN "high"
    ELSE IF riskScore >= MediumThreshold THEN "medium"
    ELSE "low"

\* ReportCard: report.risk_level || (level of riskScore)
ReportCardLevel(r) ==
    IF r.risk_level # None THEN r.risk_level ELSE LevelOfScore(RiskScoreOrZero(r))

\* Home, recent-report cards: the same two lines
HomeCardLevel(r) ==
    IF r.risk_level # None THEN r.risk_level ELSE LevelOfScore(RiskScoreOrZero(r))

\* ReportDetailPage badge: (report.risk_level || "low")
DetailBadgeLevel(r) ==
    IF r.risk_level # None THEN r.risk_level ELSE "low"

\* ReportsPage counters: the counter whose filter r.risk_level === ... the
\* report passes, None when it passes none
CounterOf(r) ==
    IF r.risk_level = "high" THEN "high"
    ELSE IF r.risk_level = "medium" THEN "medium"
    ELSE IF r.risk_level = "low" THEN "low"
    ELSE None

RiskViews == {"ReportCard", "Home", "ReportDetailPage", "ReportsPage"}

NothingRendered(views) == [v \in views |-> None]

riskFrame == UNCHANGED <<page, last, props, pageVars, chatVars, exportVars>>

RenderReportCard ==
    /\ rendered["ReportCard"] = None
    /\ rendered' = [rendered EXCEPT !["ReportCard"] = ReportCardLevel(props)]
    /\ riskFrame

RenderHomeCard ==
    /\ rendered["Home"] = None
    /\ rendered' = [rendered EXCEPT !["Home"] = HomeCardLevel(props)]
    /\ riskFrame

RenderDetailBadge ==
    /\ rendered["ReportDetailPage"] = None
    /\ rendered' = [rendered EXCEPT !["ReportDetailPage"] = DetailBadgeLevel(props)]
    /\ riskFrame

RenderReportsCounters ==
    /\ rendered["ReportsPage"] = None
    /\ rendered' = [rendered EXCEPT !["ReportsPage"] = CounterOf(props)]
    /\ riskFrame

\* no page is mounted while a presentational function is studied
NoPage ==
    /\ page = None /\ loading = FALSE /\ loads = <<>> /\ last = NoLast
    /\ NoPageState /\ NoChatState /\ NoExportState

InitRisk ==
    /\ props \in ReportInputs
    /\ rendered = NothingRendered(RiskViews)
    /\ NoPage

NextRisk ==
    \/ RenderReportCard
    \/ RenderHomeCard
    \/ RenderDetailBadge
    \/ RenderReportsCounters

SpecRisk == InitRisk /\ [][NextRisk]_vars

----------------------------------------------------------------------------
(* Home: the average-risk stat card *)

PerfectScore == 100
LowLabelMax == 35
MediumLabelMax == 65

\* an AnalyticsSummary as far as the stat card reads it, or null; the average
\* is a real number, kept here in halves of a point
SummaryInputs ==
    {[defined |-> FALSE, avg_risk_score_halves |-> 0]}
        \cup [defined : {TRUE}, avg_risk_score_halves : 0..(2 * MaxScore)]

\* Math.round of x given in halves: the nearest integer, a half going up
MathRoundOfHalves(x2) == (x2 + 1) \div 2

\* summary ? Math.round(100 - summary.avg_risk_score) : 0
AvgRiskScore(s) ==
    IF s.defined THEN MathRoundOfHalves(2 * PerfectScore - s.avg_risk_score_halves)
    ELSE 0

\* avgRiskScore <= 35 ? "Low risk" : avgRiskScore <= 65 ? "Medium risk" : "High risk"
RiskLabel(avgRiskScore) ==
    IF avgRiskScore <= LowLabelMax THEN "Low risk"
    ELSE IF avgRiskScore <= MediumLabelMax THEN "Medium risk"
    ELSE "High risk"

\* the stat card before it is rendered
NoRiskStat == [avgRiskScore |-> 0, riskLabel |-> None]

\* StatCard label="AVG. RISK SCORE": value and subtitle
RenderRiskStat ==
    /\ rendered = NoRiskStat
    /\ rendered' = [avgRiskScore |-> AvgRiskScore(props),
                    riskLabel |-> RiskLabel(AvgRiskScore(props))]
    /\ riskFrame

InitLabel ==
    /\ props \in SummaryInputs
    /\ rendered = NoRiskStat
    /\ NoPage

NextLabel == RenderRiskStat

SpecLabel == InitLabel /\ [][NextLabel]_vars

----------------------------------------------------------------------------
(* formatCallTitle, as each file defines it *)

MaxBody == 3            \* longest generated file-name body

DateDigits == 8
TimeDigits == 6
SliceEnd == 8

Digits == {"0", "1", "2", "3", "4", "5", "6", "7", "8", "9"}
Letters == {"a", "b", "c", "d", "e", "f", "g", "h", "i", "j", "k", "l", "m",
            "n", "o", "p", "q", "r", "s", "t", "u", "v", "w", "x", "y", "z"}

\* the characters file names are written in (lower case)
Chars == Digits \cup Letters \cup {"_", "-", ".", " "}

\* \d
DigitChars == Digits

\* \w
WordChars == Digits \cup Letters \cup {"_"}

\* [^.]
NotDotChars == Chars \ {"."}

Stamp == <<"2", "0", "2", "4", "0", "1", "0", "1", "_", "1", "2", "0", "0", "0", "0", "_">>
WavExt == <<".", "w", "a", "v">>

BodyChars == {"7", "a", "_", "-", "."}

RECURSIVE SeqsUpTo(_, _)
SeqsUpTo(alphabet, n) ==
    IF n = 0 THEN {<<>>}
    ELSE LET shorter == SeqsUpTo(alphabet, n - 1)
         IN  shorter \cup {Append(t, c) : t \in shorter, c \in alphabet}

NamedBodies ==
    { <<"c", "a", "l", "l", "r", "e", "c", "o", "r", "d", "i", "n", "g">>,
      <<"4", "8", "2", "9", "1", "3">>,
      <<"1", "2", "3", "4", "5", "6", "7", "8", "9", "0">> }

\* report.filename values: an optional time stamp, a body, an optional
\* extension; the empty name never reaches formatCallTitle
\* (report.filename || "Unknown Call")
Filenames ==
    { pre \o body \o ext :
         pre \in {<<>>, Stamp},
         body \in SeqsUpTo(BodyChars, MaxBody) \cup NamedBodies,
         ext \in {<<>>, WavExt} } \ {<<>>}

\* the em dash is written by its code point
CallRecordingText == <<"C", "a", "l", "l", " ", "R", "e", "c", "o", "r", "d", "i", "n", "g">>
PlaceholderHead == <<"C", "a", "l", "l", " ", "R", "e", "c", "o", "r", "d", "i", "n", "g", " ", "U+2014", " ">>
Ellipsis == <<".", ".", ".">>

AllIn(t, from, to, class) == \A i \in from..to : t[i] \in class

\* /^\d{8}_\d{6}_/ matches at the start of t
StampMatches(t) ==
    /\ Len(t) >= DateDigits + 1 + TimeDigits + 1
    /\ AllIn(t, 1, DateDigits, DigitChars)
    /\ t[DateDigits + 1] = "_"
    /\ AllIn(t, DateDigits + 2, DateDigits + 1 + TimeDigits, DigitChars)
    /\ t[DateDigits + TimeDigits + 2] = "_"

\* .replace(/^\d{8}_\d{6}_/, "")
StripStamp(t) ==
    IF StampMatches(t) THEN SubSeq(t, DateDigits + TimeDigits + 3, Len(t)) ELSE t

\* the positions at which /\.X+$/ matches, X being the character class
TailMatches(t, class) ==
    {i \in 1..Len(t) : t[i] = "." /\ i < Len(t) /\ AllIn(t, i + 1, Len(t), class)}

\* .replace(/\.X+$/, ""): the leftmost match is removed
StripTail(t, class) ==
    LET at == TailMatches(t, class)
    IN  IF at = {} THEN t
        ELSE SubSeq(t, 1, (CHOOSE i \in at : \A j \in at : i <= j) - 1)

\* .replace(/_/g, " ")
UnderscoresToSpaces_Kept(t) == t

UnderscoresToSpaces(t) == [i \in 1..Len(t) |-> IF t[i] = "_" THEN " " ELSE t[i]]

\* .replace(/[_-]/g, " ")
SeparatorsToSpaces(t) ==
    [i \in 1..Len(t) |-> IF t[i] \in {"_", "-"} THEN " " ELSE t[i]]

\* /^\d+(\.\d+)?$/.test(name)
IsNumericName(name) ==
    \E k \in 1..Len(name) :
       /\ AllIn(name, 1, k, DigitChars)
       /\ \/ k = Len(name)
          \/ /\ k + 2 <= Len(name)
             /\ name[k + 1] = "."
             /\ AllIn(name, k + 2, Len(name), DigitChars)

\* name.slice(0, 8)
Slice(name) == SubSeq(name, 1, IF Len(name) < SliceEnd THEN Len(name) ELSE SliceEnd)

\* formatCallTitle of app/page.tsx
HomeFormatCallTitle(filename) ==
    LET name == UnderscoresToSpaces(StripTail(StripStamp(filename), WordChars))
    IN  IF IsNumericName(name) THEN PlaceholderHead \o Slice(name) \o Ellipsis
        ELSE IF name # <<>> THEN name
        ELSE CallRecordingText

\* formatCallTitle of components/ReportCard.tsx
CardFormatCallTitle(filename) ==
    LET name == UnderscoresToSpaces(StripTail(StripStamp(filename), WordChars))
    IN  IF IsNumericName(name) THEN PlaceholderHead \o Slice(name) \o Ellipsis
        ELSE IF name # <<>> THEN name
        ELSE CallRecordingText

\* formatCallTitle of app/reports/[id]/page.tsx
DetailFormatCallTitle(filename) ==
    SeparatorsToSpaces(StripTail(StripStamp(filename), NotDotChars))

TitleViews == {"Home", "ReportCard", "ReportDetailPage"}

Title(t) == [done |-> TRUE, title |-> t]

RenderHomeTitle ==
    /\ ~rendered["Home"].done
    /\ rendered' = [rendered EXCEPT !["Home"] = Title(HomeFormatCallTitle(props))]
    /\ riskFrame

RenderCardTitle ==
    /\ ~rendered["ReportCard"].done
    /\ rendered' = [rendered EXCEPT !["ReportCard"] = Title(CardFormatCallTitle(props))]
    /\ riskFrame

RenderDetailTitle ==
    /\ ~rendered["ReportDetailPage"].done
    /\ rendered' = [rendered EXCEPT
                       !["ReportDetailPage"] = Title(DetailFormatCallTitle(props))]
    /\ riskFrame

InitTitle ==
    /\ props \in Filenames
    /\ rendered = [v \in TitleViews |-> [done |-> FALSE, title |-> <<>>]]
    /\ NoPage

NextTitle ==
    \/ RenderHomeTitle
    \/ RenderCardTitle
    \/ RenderDetailTitle

SpecTitle == InitTitle /\ [][NextTitle]_vars

----------------------------------------------------------------------------
(* ReportsPage: counters and ordering of a list of reports *)

MaxReports == 3         \* longest list of reports explored

\* a Report as far as the list reads it. timestamp: the milliseconds
\* new Date(timestamp).getTime() gives, Null when missing; risk: two reports
\* with a level, one without, of different scores
ListedReports ==
    {[timestamp |-> t, risk |-> r] :
        t \in {Null, 1, 2, 9},
        r \in { [has_score |-> TRUE, risk_score |-> 10, risk_level |-> "high"],
                [has_score |-> TRUE, risk_score |-> 40, risk_level |-> "low"],
                [has_score |-> TRUE, risk_score |-> 70, risk_level |-> None] }}

\* what ReportsPage is given: the fetched reports, the clock at the time of
\* rendering (most timestamps lie before it, one after it), and whether the
\* clock ticks between the two new Date() of one comparison
ListInputs ==
    [reports : SeqsUpTo(ListedReports, MaxReports),
     now : {5},
     tick : {0, 1}]

\* reports.filter((r) => r.risk_level === level).length
CountLevel(rs, level) ==
    Cardinality({i \in 1..Len(rs) : rs[i].risk.risk_level = level})

\* new Date(r.timestamp || new Date().toISOString()).getTime()
TimeOf(r, clock) == IF r.timestamp # Null THEN r.timestamp ELSE clock

CompareOldestFirst(a, b, clock, tick) == TimeOf(a, clock + tick) - TimeOf(b, clock)

\* the comparator: the time of b is read first, then that of a
CompareNewestFirst(a, b, clock, tick) == TimeOf(b, clock) - TimeOf(a, clock + tick)

\* what Array.prototype.sort does with one more element: it goes before the
\* first element the comparator puts it before, else to the end
RECURSIVE SortFrom(_, _, _, _)
SortFrom(sorted, rest, clock, tick) ==
    IF rest = <<>> THEN sorted
    ELSE LET pivot == Head(rest)
             before == {j \in 1..Len(sorted) :
                           CompareNewestFirst(pivot, sorted[j], clock, tick) < 0}
             at == IF before = {} THEN Len(sorted) + 1
                   ELSE CHOOSE j \in before : \A k \in before : j <= k
         IN  SortFrom(SubSeq(sorted, 1, at - 1) \o <<pivot>> \o SubSeq(sorted, at, Len(sorted)),
                      Tail(rest), clock, tick)

\* [...reports].sort(comparator)
SortedReports(p) == SortFrom(<<>>, p.reports, p.now, p.tick)

\* the stats row, rendered when reports.length > 0
RenderRiskCounts ==
    /\ ~rendered.counted
    /\ Len(props.reports) > 0
    /\ rendered' = [rendered EXCEPT !.counted = TRUE,
                                    !.total = Len(props.reports),
                                    !.low = CountLevel(props.reports, "low"),
                                    !.medium = CountLevel(props.reports, "medium"),
                                    !.high = CountLevel(props.reports, "high")]
    /\ riskFrame

\* the grid, rendered when reports.length > 0: one ReportCard per sorted report
RenderReportsGrid ==
    /\ ~rendered.listed
    /\ Len(props.reports) > 0
    /\ LET sorted == SortedReports(props)
       IN  rendered' = [rendered EXCEPT
                           !.listed = TRUE,
                           !.grid = sorted,
                           !.badges = [i \in 1..Len(sorted) |-> ReportCardLevel(sorted[i].risk)]]
    /\ riskFrame

InitList ==
    /\ props \in ListInputs
    /\ rendered = [counted |-> FALSE, total |-> 0, low |-> 0, medium |-> 0, high |-> 0,
                   listed |-> FALSE, grid |-> <<>>, badges |-> <<>>]
    /\ NoPage

NextList ==
    \/ RenderRiskCounts
    \/ RenderReportsGrid

SpecList == InitList /\ [][NextList]_vars

----------------------------------------------------------------------------
(* NavBar *)

MaxSuffix == 2          \* longest generated continuation of a path

NAV_ITEMS ==
    << [href |-> <<"/">>, label |-> "Dashboard"],
       [href |-> <<"/", "r", "e", "p", "o", "r", "t", "s">>,
        label |-> "Reports"],
       [href |-> <<"/", "a", "n", "a", "l", "y", "t", "i", "c", "s">>,
        label |-> "Analytics"],
       [href |-> <<"/", "q", "u", "e", "r", "y">>, label |-> "Ask AI"] >>

NavLabels == {NAV_ITEMS[i].label : i \in 1..Len(NAV_ITEMS)}

\* usePathname(): a path of the site, or one a visitor typed
Pathnames ==
    {stem \o rest :
        stem \in {NAV_ITEMS[i].href : i \in 1..Len(NAV_ITEMS)}
                    \cup {<<"/", "r", "e", "p">>,
                          <<"/", "r", "e", "a", "l", "t", "i", "m", "e">>},
        rest \in SeqsUpTo({"/", "1", "s"}, MaxSuffix)}

\* String.prototype.startsWith
StartsWith(t, prefix) ==
    Len(t) >= Len(prefix) /\ SubSeq(t, 1, Len(prefix)) = prefix

isActive_PrefixOnly(href, pathname) == StartsWith(pathname, href)

\* if (href === "/") return pathname === "/"; return pathname.startsWith(href);
isActive(href, pathname) ==
    IF href = <<"/">> THEN pathname = <<"/">> ELSE StartsWith(pathname, href)

\* one Link of NAV_ITEMS.map: const active = isActive(item.href)
RenderNavItem ==
    /\ \E i \in 1..Len(NAV_ITEMS) :
          /\ rendered[NAV_ITEMS[i].label] = None
          /\ rendered' = [rendered EXCEPT
                             ![NAV_ITEMS[i].label] =
                                 IF isActive(NAV_ITEMS[i].href, props)
                                 THEN "active" ELSE "inactive"]
    /\ riskFrame

InitNav ==
    /\ props \in Pathnames
    /\ rendered = NothingRendered(NavLabels)
    /\ NoPage

SpecNav == InitNav /\ [][RenderNavItem]_vars

----------------------------------------------------------------------------
(* ViolationsList *)

MaxViolations == 3      \* longest list of violations handed to the component

\* the violations prop: missing (undefined / null) or a list. An entry of
\* string[] has typeof v === "string" and its text in description; the others
\* are entries of ViolationDetail[]
ViolationInputs ==
    {[missing |-> TRUE, violations |-> <<>>]}
        \cup [missing : {FALSE},
              violations :
                SeqsUpTo([isString : {TRUE}, type : {None}, severity : {None},
                          description : {"Shared OTP", "Threatened caller"},
                          quote : {None}]
                         \cup
                         { [isString |-> FALSE, type |-> "Data Privacy",
                            severity |-> "low", description |-> "Shared OTP",
                            quote |-> "read me the code"],
                           [isString |-> FALSE, type |-> "Policy Violation",
                            severity |-> "medium", description |-> "Missed disclosure",
                            quote |-> None] },
                         MaxViolations)]

NormalizeViolation_Medium(v) ==
    IF v.isString
    THEN [isString |-> FALSE, type |-> "Policy Violation", severity |-> "medium",
          description |-> v.description, quote |-> None]
    ELSE v

\* the callback of violations.map
NormalizeViolation(v) ==
    IF v.isString
    THEN [isString |-> FALSE, type |-> "Policy Violation", severity |-> "high",
          description |-> v.description, quote |-> None]
    ELSE v

NoViolationsView == [view |-> None, count |-> 0, items |-> <<>>]

\* if (!violations || violations.length === 0) return "No violations detected"
RenderNoViolations ==
    /\ rendered = NoViolationsView
    /\ props.missing \/ Len(props.violations) = 0
    /\ rendered' = [view |-> "No violations detected", count |-> 0, items |-> <<>>]
    /\ riskFrame

\* normalizedViolations, the header count and the rows
RenderViolations ==
    /\ rendered = NoViolationsView
    /\ ~ (props.missing \/ Len(props.violations) = 0)
    /\ LET normalizedViolations ==
               [i \in 1..Len(props.violations) |-> NormalizeViolation(props.violations[i])]
       IN rendered' = [view |-> "Violations",
                       count |-> Len(normalizedViolations),
                       items |-> normalizedViolations]
    /\ riskFrame

InitViolations ==
    /\ props \in ViolationInputs
    /\ rendered = NoViolationsView
    /\ NoPage

NextViolations == RenderNoViolations \/ RenderViolations

SpecViolations == InitViolations /\ [][NextViolations]_vars

----------------------------------------------------------------------------
(* Chat properties *)

NumRole(r) == Cardinality({i \in 1..Len(messages) : messages[i].role = r})

BotTexts == {r.answer : r \in {x \in Responses : x.answer # <<>>}}
                \cup {FallbackText, ApologyText}

OneBotPerSettledTurn ==
    /\ NumRole("bot") + Len(queries) = NumRole("user")
    /\ \A i \in 1..Len(messages) :
          messages[i].role = "bot" => messages[i].content \in BotTexts

\* C1: every accepted submission whose sendQuery settles gets exactly one bot
\* message, the reply or a canned text: in every state the bot messages plus
\* the requests still in flight number the user messages, and (the request
\* settling) a request in flight leads to none in flight.
C1_ExactlyOneBotMessagePerTurn ==
    /\ []OneBotPerSettledTurn
    /\ (Len(queries) > 0) ~> (Len(queries) = 0)

C1_Witness ==
    /\ last.op = "sendQuery"
    /\ Len(messages) = 4
    /\ messages[4].role = "bot"
    /\ queries = <<>>

AnySend ==
    ClickSend \/ PressEnter \/ ClickWelcomeSuggestion \/ ClickQuickSuggestion

\* C2: a handleSend call made while loading is true, from whichever entry
\* point, changes neither the transcript, the input nor the loading flag and
\* issues no request.
C2_SendWhileLoadingIsNoOp ==
    [][(loading /\ AnySend) => UNCHANGED <<messages, input, loading, queries>>]_vars

C2_Witness ==
    /\ last.op = "handleSend"
    /\ last.did = "ignored-loading"
    /\ loading
    /\ input = <<>>
    /\ Len(queries) = 1

\* C3: at most one sendQuery request is in flight in every reachable state.
C3_AtMostOneQueryInFlight == Len(queries) <= 1

C3_Witness ==
    /\ Len(queries) = 1
    /\ Len(messages) = 3
    /\ last.did = "ignored-loading"
    /\ last.via = "quick"

AllSpaces(t) == \A i \in 1..Len(t) : IsSpace(t[i])

Questions == {<<>>} \cup UNION {{c[i].text : i \in 1..Len(c)} : c \in SuggestionCatalogs}

Vias == {"send-button", "enter-key", "welcome", "quick"}

\* C4: a handleSend call whose text (the question if non-empty, else the
\* input) is empty or only white space appends nothing, leaves loading and
\* the input as they are and issues no request.
C4_EmptySendIsNoOp ==
    [][\A question \in Questions, via \in Vias :
          (/\ page = "/query"
           /\ AllSpaces(QuestionOrInput(question))
           /\ handleSend(question, via))
          => UNCHANGED <<messages, input, loading, queries>>]_vars

C4_Witness ==
    /\ last.op = "handleSend"
    /\ last.did = "ignored-empty"
    /\ input = <<" ">>
    /\ ~loading

RequestSettles == page = "/query" /\ Len(queries') < Len(queries)

\* C5: when sendQuery rejects, the transcript grows by exactly the canned
\* apology, loading becomes false and a new submission would be accepted; when
\* it resolves without an answer, the transcript grows by exactly the fallback.
C5_ErrorTurn ==
    [][/\ (RequestSettles /\ last'.via = "rejected")
          => /\ messages' = Append(messages, [role |-> "bot", content |-> ApologyText])
             /\ messages'[Len(messages)].role = "user"
             /\ loading' = FALSE
             /\ ~(SendRejected(<<"a">>))'
       /\ (RequestSettles /\ last'.did \in {"no-response", "no-answer"})
          => /\ messages' = Append(messages, [role |-> "bot", content |-> FallbackText])
             /\ loading' = FALSE]_vars

C5_Witness ==
    /\ Len(messages) = 4
    /\ messages[2].content = ApologyText
    /\ messages[4].content = FallbackText
    /\ ~loading

\* C6: the session token never changes after mount and every request in
\* flight carries it.
C6_SessionTokenStable ==
    /\ [][sessionId' = sessionId]_vars
    /\ [](page = "/query" =>
            /\ sessionId \in SessionTokens
            /\ \A i \in 1..Len(queries) : queries[i].sessionId = sessionId)

C6_Witness ==
    /\ Len(messages) = 3
    /\ messages[2].content = ApologyText
    /\ Len(queries) = 1
    /\ queries[1].sessionId = sessionId

----------------------------------------------------------------------------
(* Export properties *)

\* C7: a timer callback that clears a message does so exactly 4000ms after
\* that message was set.
C7_ClearedAfterExactlyTheDelay ==
    [][(TimerFires /\ exportMsg # None) => now - msgSetAt = DismissDelayMs]_vars

----------------------------------------------------------------------------
(* Page loading properties *)

MountFn ==
    CASE page = "/" -> "Home.loadData"
      [] page = "/reports" -> "ReportsPage.loadReports"
      [] page = "/analytics" -> "AnalyticsPage.loadData"
      [] page = "/reports/[id]" -> "ReportDetailPage.loadReport"
      [] OTHER -> "none"

\* the call ended in its catch block
Threw(c) ==
    \/ c.a.st = "rejected"
    \/ c.b.st = "rejected"
    \/ c.fn = "ReportDetailPage.loadReport" /\ c.a.st = "resolved" /\ c.a.val = Null

\* the fetch rejected or its primary payload is falsy
FetchFailed(c) ==
    \/ Threw(c)
    \/ c.fn = "AnalyticsPage.loadData" /\ c.a.st = "resolved" /\ c.a.val = Null

MountFetchFailed == \E i \in CallsOf(MountFn) : loads[i].done /\ FetchFailed(loads[i])

ErrorShown ==
    CASE page = "/" -> HomeErrorShown
      [] page = "/reports" -> ReportsErrorShown
      [] page = "/analytics" -> AnalyticsView = "error"
      [] page = "/reports/[id]" -> DetailView = "error"
      [] OTHER -> FALSE

FetchingPages == {"/", "/reports", "/analytics", "/reports/[id]"}

Data == <<reports, summary, trends, report, callerHistory>>

\* the continuation of page-load call i runs in this step and ends in its
\* catch block
FailStep(i) ==
    /\ i <= Len(loads')
    /\ ~loads[i].done
    /\ loads'[i].done
    /\ Threw(loads'[i])

\* the same for caller-history call i
HistoryFailStep(i) ==
    /\ i <= Len(histories')
    /\ ~histories[i].done
    /\ histories'[i].done
    /\ Threw(histories'[i])

ErrorFlagFns ==
    {"ReportsPage.loadReports", "AnalyticsPage.loadData", "ReportDetailPage.loadReport"}

TwoFetchPages == {"/", "/analytics"}

StoredPair == IF page = "/" THEN <<reports, summary>> ELSE <<summary, trends>>

InitialPair == IF page = "/" THEN << <<>>, Null >> ELSE <<Null, Null>>

PairOf(c) ==
    IF page = "/" THEN <<ReportList(c.a.val), c.b.val>> ELSE <<c.a.val, c.b.val>>

\* the stored payloads are the initial ones or both those of one call whose
\* two fetches resolved
StoredTogether ==
    \/ StoredPair = InitialPair
    \/ \E i \in 1..Len(loads) :
          loads[i].done /\ AllResolved(loads[i]) /\ StoredPair = PairOf(loads[i])

IssuedTogether == \A i \in 1..Len(loads) : loads[i].a.st # "none" /\ loads[i].b.st # "none"

\* C10 as stated: the two fetches are issued together, no state update of the
\* awaiting function happens before both have settled, and never is exactly
\* one payload stored.
C10_NothingBeforeBothSettle ==
    page \in TwoFetchPages =>
       /\ IssuedTogether
       /\ \A i \in 1..Len(loads) :
             loads[i].done => (loads[i].a.st # "pending" /\ loads[i].b.st # "pending")
       /\ StoredTogether

\* C10 amended: the two fetches are issued together, no payload is stored
\* before both have resolved, and never is exactly one payload stored; the
\* error flag and the loading flag, however, are updated as soon as one fetch
\* rejects, which can be while the other is still pending.
C10_NoPartialStore ==
    page \in TwoFetchPages =>
       /\ IssuedTogether
       /\ StoredTogether
       /\ \A i \in 1..Len(loads) :
             (loads[i].done /\ ~Threw(loads[i])) => AllResolved(loads[i])

C10_Witness ==
    /\ page = "/analytics"
    /\ ~loading
    /\ error = None
    /\ summary = 1
    /\ trends = 2
    /\ AllResolved(loads[1])

----------------------------------------------------------------------------
(* Risk level properties *)

\* the level the score s stands for: low below 35, medium from 35 and below
\* 65, high from 65
BucketOf(s) == IF s < 35 THEN "low" ELSE IF s < 65 THEN "medium" ELSE "high"

Rank(level) == IF level = "low" THEN 0 ELSE IF level = "medium" THEN 1 ELSE 2

\* the score of the report in props, a missing one being 0
ScoreOrZero == IF props.has_score THEN props.risk_score ELSE 0

LevelAbsent == props.risk_level = None

\* C11: for a report without risk_level, ReportCard and the home card show
\* low for a score below 35, medium from 35 and below 65, high from 65, a
\* missing score counting as 0; and no smaller score gets a higher level.
C11_CardBucketing ==
    \A v \in {"ReportCard", "Home"} :
       (LevelAbsent /\ rendered[v] # None) =>
          /\ rendered[v] = BucketOf(ScoreOrZero)
          /\ \A s \in 0..ScoreOrZero :
                /\ Rank(LevelOfScore(s)) <= Rank(rendered[v])
                /\ Rank(ReportCardLevel([props EXCEPT !.has_score = TRUE, !.risk_score = s]))
                      <= Rank(rendered[v])

C11_Witness ==
    /\ LevelAbsent
    /\ props.has_score /\ props.risk_score = 65
    /\ rendered["ReportCard"] = "high"
    /\ rendered["Home"] = "high"

\* C12: in every view a report without risk_level gets the level its score
\* stands for, so all views give the same report the same level.
C12_SameLevelInEveryView ==
    \A v \in RiskViews :
       (LevelAbsent /\ rendered[v] # None) =>
          /\ rendered[v] = BucketOf(ScoreOrZero)
          /\ \A w \in RiskViews : rendered[w] # None => rendered[w] = rendered[v]

\* C13: the label under the average risk score is Low risk when the score
\* shown is below 35, Medium risk when it is at least 35 and below 65, High
\* risk otherwise.
C13_LabelThresholds ==
    rendered.riskLabel # None =>
       rendered.riskLabel =
          (IF rendered.avgRiskScore < 35 THEN "Low risk"
           ELSE IF rendered.avgRiskScore < 65 THEN "Medium risk"
           ELSE "High risk")

----------------------------------------------------------------------------
(* Title properties *)

OnlyDigits(t) == t # <<>> /\ \A i \in 1..Len(t) : t[i] \in Digits

\* the file name without a leading 8-digit_6-digit_ stamp
WithoutStamp(f) ==
    IF /\ Len(f) >= 16
       /\ \A i \in 1..16 : IF i \in {9, 16} THEN f[i] = "_" ELSE f[i] \in Digits
    THEN [i \in 1..(Len(f) - 16) |-> f[i + 16]]
    ELSE f

\* the file name without its final extension: a last dot followed by one or
\* more letters, digits or underscores
WithoutExtension(f) ==
    LET dots == {i \in 1..Len(f) : f[i] = "."}
        last_dot == CHOOSE i \in dots : \A j \in dots : j <= i
    IN  IF dots = {} THEN f
        ELSE IF last_dot = Len(f) THEN f
        ELSE IF \E j \in (last_dot + 1)..Len(f) : f[j] \notin Digits \cup Letters \cup {"_"}
             THEN f
        ELSE [i \in 1..(last_dot - 1) |-> f[i]]

Spaced(f) == [i \in 1..Len(f) |-> IF f[i] = "_" THEN " " ELSE f[i]]

Remainder(f) == Spaced(WithoutExtension(WithoutStamp(f)))

FirstEight(t) == [i \in 1..(IF Len(t) < 8 THEN Len(t) ELSE 8) |-> t[i]]

ExampleRecording == Stamp \o <<"c", "a", "l", "l", "r", "e", "c", "o", "r", "d", "i", "n", "g">> \o WavExt
ExampleNumber == <<"4", "8", "2", "9", "1", "3">>

\* C14: the home page's and ReportCard's formatCallTitle strip the stamp and
\* the final extension and turn underscores into spaces; a remainder of
\* digits only gives "Call Recording — ", its first 8 characters at most and
\* "..."; an empty remainder gives "Call Recording"; the two examples come
\* out as stated.
C14_FormatCallTitle ==
    \A v \in {"Home", "ReportCard"} :
       rendered[v].done =>
          LET rem == Remainder(props)
              title == rendered[v].title
          IN  /\ OnlyDigits(rem) => title = PlaceholderHead \o FirstEight(rem) \o Ellipsis
              /\ rem = <<>> => title = CallRecordingText
              /\ (\E i \in 1..Len(rem) : rem[i] \notin Digits \cup {"."}) => title = rem
              /\ props = ExampleRecording => title = <<"c", "a", "l", "l", "r", "e", "c", "o", "r", "d", "i", "n", "g">>
              /\ props = ExampleNumber
                    => title = <<"C", "a", "l", "l", " ", "R", "e", "c", "o", "r", "d", "i", "n", "g", " ", "U+2014", " ", "4", "8", "2", "9", "1", "3", ".", ".", ".">>

C14_Witness ==
    /\ props = Stamp \o <<"1", "2", "3", "4", "5", "6", "7", "8", "9", "0">> \o WavExt
    /\ rendered["Home"].done
    /\ rendered["ReportCard"].done
    /\ rendered["Home"].title = PlaceholderHead \o <<"1", "2", "3", "4", "5", "6", "7", "8">> \o Ellipsis
    /\ rendered["ReportCard"].title = rendered["Home"].title

\* C15: for every file name the report-detail page's formatCallTitle gives
\* the title that the home page's and ReportCard's give.
C15_SameTitleEverywhere ==
    \A v \in {"Home", "ReportCard"} :
       (rendered["ReportDetailPage"].done /\ rendered[v].done)
          => rendered["ReportDetailPage"].title = rendered[v].title

----------------------------------------------------------------------------
(* Request properties *)

NoQuerySettles == Len(queries') >= Len(queries)

\* C16: while the sendQuery request in flight does not settle, loading stays
\* true: the input stays disabled, no submission is accepted (no message is
\* appended, no request issued) and no bot message is appended.
C16_UnsettledQueryKeepsLoading ==
    /\ [](Len(queries) > 0 => (loading /\ InputDisabled))
    /\ [][(Len(queries) > 0 /\ NoQuerySettles)
             => /\ loading' /\ InputDisabled'
                /\ UNCHANGED <<messages, queries, input>>]_vars

C16_Witness ==
    /\ Len(queries) = 1
    /\ Len(messages) = 5
    /\ loading
    /\ last.did = "ignored-loading"
    /\ last.via = "send-button"

OncePerMountPages == {"/", "/reports", "/analytics"}

\* C17: a page function is called once at mount and after that only by a
\* user action (an analysed upload, a change of report, a press of Caller
\* History, a click on Download CSV); a sendQuery is issued only by an
\* accepted submission, one per submission; the suggestions are not fetched
\* again; so no step in which a request settles or fails issues a request.
C17_NothingRetried ==
    /\ [](page \in OncePerMountPages => Cardinality(CallsOf(MountFn)) = 1)
    /\ [](page = "/reports/[id]" => Cardinality(CallsOf(MountFn)) >= 1)
    /\ [][/\ Len(loads') >= Len(loads)
          /\ Len(loads') > Len(loads) => (AudioAnalyzed \/ ChangeReportId)
          /\ Len(histories') >= Len(histories)
          /\ Len(histories') > Len(histories) => ShowCallerHistory
          /\ Len(queries') > Len(queries)
                => /\ AnySend
                   /\ Len(queries') = Len(queries) + 1
                   /\ Len(messages') = Len(messages) + 1
          /\ exports' > exports => (ClickExport /\ exports' = exports + 1)
          /\ sugFetch' = "pending" => sugFetch = "pending"]_vars

C17_Witness ==
    /\ page = "/analytics"
    /\ Len(loads) = 1
    /\ loads[1].a.st = "rejected"
    /\ loads[1].b.st = "rejected"
    /\ error # None
    /\ ~loading

\* C18: once the suggestions fetch has settled it is never issued again and
\* the stored list never changes; in particular no handleSend, reply or
\* error changes the list or the state of the fetch.
C18_SuggestionsFetchedOnce ==
    /\ [](page = "/query" => sugFetch \in {"pending", "resolved", "rejected"})
    /\ [][/\ sugFetch # "pending" => UNCHANGED <<sugFetch, suggestions>>
          /\ (AnySend \/ QueryResolved \/ QueryRejected)
                => UNCHANGED <<sugFetch, suggestions>>]_vars

C18_Witness ==
    /\ sugFetch = "resolved"
    /\ Len(suggestions) = 2
    /\ Len(messages) = 4
    /\ messages[3].content = suggestions[1].text
    /\ messages[4].content = ApologyText

IsOdd(n) == n % 2 = 1

Alternates ==
    \A i \in 1..Len(messages) :
       messages[i].role = IF IsOdd(i) THEN "user" ELSE "bot"

\* C20: the transcript only grows at its end; it alternates user, bot
\* starting with a user message; its length is odd exactly while loading is
\* true, which is exactly while a query is outstanding.
C20_TranscriptInvariant ==
    /\ [](page = "/query" =>
            /\ Alternates
            /\ loading <=> IsOdd(Len(messages))
            /\ loading <=> Len(queries) > 0)
    /\ [][\/ messages' = messages
          \/ /\ Len(messages') = Len(messages) + 1
             /\ SubSeq(messages', 1, Len(messages)) = messages]_vars

C20_Witness ==
    /\ Len(messages) = 5
    /\ loading
    /\ messages[2].content = FallbackText
    /\ messages[4].content = ApologyText
    /\ messages[5].role = "user"

----------------------------------------------------------------------------
(* View properties *)

\* the kinds of view the mounted page shows; an empty list is a data view
ViewsShown ==
    CASE page = "/" -> HomeViews
      [] page = "/reports" ->
            {IF v = "empty" THEN "data" ELSE v : v \in ReportsViews}
      [] page = "/analytics" -> {AnalyticsView}
      [] page = "/reports/[id]" -> {DetailView}
      [] OTHER -> {}

\* C21: on each fetching page exactly one of the views loading, error and
\* data is shown in every reachable state; on the reports list the error
\* banner is never shown together with the empty-list or the loading view.
C21_ExactlyOneView ==
    /\ page \in FetchingPages => Cardinality(ViewsShown) = 1
    /\ page = "/reports" =>
          ~({"error", "empty"} \subseteq ReportsViews \/ {"error", "loading"} \subseteq ReportsViews)

\* the call made by the mount effect
InitialLoad == loads[1]

AnyLoadDone == \E i \in 1..Len(loads) : loads[i].done

NeverLoadingAgain == [][(page \in FetchingPages /\ ~loading) => ~loading']_vars

\* C22 as stated: on every fetching page loading is true until the initial
\* load settles, false once it has settled, and never true again.
C22_LoadingUntilInitialSettles ==
    /\ [](page \in FetchingPages => (loading <=> ~InitialLoad.done))
    /\ NeverLoadingAgain

\* C22 amended: the same on Home, the reports list and analytics; on the
\* report detail page loading is true until the first loadReport call to
\* settle, whichever id it was issued for, and false from then on.
C22_LoadingLifecycle ==
    /\ [](page \in OncePerMountPages => (loading <=> ~InitialLoad.done))
    /\ [](page = "/reports/[id]" => (loading <=> ~AnyLoadDone))
    /\ NeverLoadingAgain

C22_Witness ==
    /\ page = "/reports/[id]"
    /\ Len(loads) = 2
    /\ InitialLoad.done
    /\ ~loads[2].done
    /\ reportId = loads[2].arg
    /\ ~loading

----------------------------------------------------------------------------
(* Caller history properties *)

HistoryIssued == Len(histories') > Len(histories)

\* C23: a press of Caller History shows the panel, sets loadingHistory and
\* issues one fetchCallerHistory for the displayed report; the close control
\* hides the panel, issues nothing and keeps callerHistory; a failed fetch
\* keeps the stored history and sets loadingHistory to false.
C23_CallerHistoryPanel ==
    [][/\ ShowCallerHistory
             => /\ showCallerHistory' /\ loadingHistory'
                /\ Len(histories') = Len(histories) + 1
                /\ SubSeq(histories', 1, Len(histories)) = histories
                /\ histories'[Len(histories')].arg = report
                /\ histories'[Len(histories')].a.st = "pending"
                /\ UNCHANGED callerHistory
       /\ HistoryIssued => ShowCallerHistory
       /\ CloseCallerHistory
             => /\ ~showCallerHistory'
                /\ UNCHANGED <<histories, loads, callerHistory, loadingHistory>>
       /\ (showCallerHistory /\ ~showCallerHistory') => CloseCallerHistory
       /\ \A i \in 1..Len(histories) :
             HistoryFailStep(i) => (callerHistory' = callerHistory /\ ~loadingHistory')]_vars

C23_Witness ==
    /\ ~showCallerHistory
    /\ Len(histories) = 2
    /\ histories[1].a = Resolved(2)
    /\ histories[2].a = Rejected
    /\ callerHistory = ReportList(2)
    /\ ~loadingHistory

HistoryInFlight == {i \in 1..Len(histories) : histories[i].a.st = "pending"}

HistorySucceeded == {i \in 1..Len(histories) : histories[i].a.st = "resolved"}

LastOf(S) == CHOOSE i \in S : \A j \in S : j <= i

HistoryPanelLoading == showCallerHistory /\ loadingHistory

\* C24: loadingHistory is true whenever a fetchCallerHistory request is in
\* flight, so the open panel shows its loading line then; once every request
\* has settled, callerHistory is the result of the successful request that
\* was issued last.
C24_HistoryUnderRepeatedPresses ==
    /\ HistoryInFlight # {} => loadingHistory
    /\ (HistoryInFlight # {} /\ showCallerHistory) => HistoryPanelLoading
    /\ (HistoryInFlight = {} /\ HistorySucceeded # {})
          => callerHistory = ReportList(histories[LastOf(HistorySucceeded)].a.val)

----------------------------------------------------------------------------
(* Overlapping page loads *)

AllLoadsSettled ==
    \A i \in 1..Len(loads) : loads[i].a.st # "pending" /\ loads[i].b.st # "pending"

\* the loadReport call issued for the id now in the URL
CurrentLoad == loads[Len(loads)]

\* C25: once the id has changed and every fetchReport has settled, report
\* and error are those of the fetch for the current id: if it succeeded its
\* report is stored and no error is shown, if it failed the error is set.
C25_CurrentIdOnly ==
    (page = "/reports/[id]" /\ Len(loads) > 1 /\ AllLoadsSettled)
       => /\ CurrentLoad.arg = reportId
          /\ IF Threw(CurrentLoad)
             THEN error # None
             ELSE report = CurrentLoad.a.val /\ error = None /\ DetailView = "data"

\* the refresh issued last by handleAudioAnalyzed
LatestRefresh == loads[Len(loads)]

\* C26: when the initial load and a refresh have both settled, reports and
\* summary come from one fetch pair, and when the refresh issued last
\* succeeded they are that refresh's pair, whatever the order of settling.
C26_LatestRefreshWins ==
    (page = "/" /\ Len(loads) > 1 /\ AllLoadsSettled)
       => /\ StoredTogether
          /\ AllResolved(LatestRefresh) => StoredPair = PairOf(LatestRefresh)

----------------------------------------------------------------------------
(* Reports list properties *)

BadgesOf(level) == {i \in 1..Len(rendered.badges) : rendered.badges[i] = level}

CounterFor(level) ==
    IF level = "low" THEN rendered.low
    ELSE IF level = "medium" THEN rendered.medium
    ELSE rendered.high

\* C27: the low, medium and high counts sum to the number of reports, and
\* each counter counts the reports whose ReportCard badge shows its level.
C27_CountersMatchBadges ==
    /\ rendered.counted => rendered.low + rendered.medium + rendered.high = rendered.total
    /\ (rendered.counted /\ rendered.listed)
          => \A level \in RiskLevels : CounterFor(level) = Cardinality(BadgesOf(level))

Occurrences(list, x) == Cardinality({i \in 1..Len(list) : list[i] = x})

IsPermutation(a, b) ==
    /\ Len(a) = Len(b)
    /\ \A x \in ListedReports : Occurrences(a, x) = Occurrences(b, x)

\* the time a report is ordered by: its timestamp, the present when it has none
OrderedBy(r) == IF r.timestamp = Null THEN props.now ELSE r.timestamp

\* C28: the rendered list is a permutation of the fetched reports, the
\* fetched array is left as it was, and the list is in non-increasing
\* timestamp order.
C28_SortedPermutation ==
    /\ [](rendered.listed =>
            /\ IsPermutation(rendered.grid, props.reports)
            /\ \A i, j \in 1..Len(rendered.grid) :
                  i < j => OrderedBy(rendered.grid[i]) >= OrderedBy(rendered.grid[j]))
    /\ [][props' = props]_vars

C28_Witness ==
    /\ rendered.listed
    /\ Len(props.reports) = 3
    /\ props.reports[1].timestamp = 1
    /\ props.reports[2].timestamp = Null
    /\ props.reports[3].timestamp = 2
    /\ rendered.grid = <<props.reports[2], props.reports[3], props.reports[1]>>
    /\ props.tick = 1

----------------------------------------------------------------------------
(* NavBar properties *)

ActiveItems == {l \in NavLabels : rendered[l] = "active"}

HrefOf(l) == (CHOOSE i \in 1..Len(NAV_ITEMS) : NAV_ITEMS[i].label = l)

\* the pathname begins with the characters of h
BeginsWith(h) == \A i \in 1..Len(h) : i <= Len(props) /\ props[i] = h[i]

\* C29: at most one navigation item is active; Dashboard is active only for
\* the pathname "/"; every other item is active exactly when the pathname
\* starts with its href.
C29_AtMostOneActive ==
    /\ Cardinality(ActiveItems) <= 1
    /\ rendered["Dashboard"] = "active" => props = <<"/">>
    /\ \A l \in NavLabels \ {"Dashboard"} :
          rendered[l] # None
             => (rendered[l] = "active" <=> BeginsWith(NAV_ITEMS[HrefOf(l)].href))

C29_Witness ==
    /\ props = <<"/", "r", "e", "p", "o", "r", "t", "s", "/", "1">>
    /\ rendered["Reports"] = "active"
    /\ \A l \in NavLabels \ {"Reports"} : rendered[l] = "inactive"

----------------------------------------------------------------------------
(* ViolationsList properties *)

ViolationsGiven == (~ props.missing) /\ props.violations # <<>>

\* C30: a non-empty list is rendered with the same length and order, string
\* entries become violations of type "Policy Violation" with severity high
\* and the string as description, object entries are unchanged; an empty or
\* missing list renders "No violations detected".
C30_NormalizedInOrder ==
    rendered.view # None =>
        IF ViolationsGiven
        THEN /\ rendered.view = "Violations"
             /\ Len(rendered.items) = Len(props.violations)
             /\ rendered.count = Len(props.violations)
             /\ \A i \in 1..Len(props.violations) :
                   IF props.violations[i].isString
                   THEN /\ rendered.items[i].type = "Policy Violation"
                        /\ rendered.items[i].severity = "high"
                        /\ rendered.items[i].description = props.violations[i].description
                        /\ ~ rendered.items[i].isString
                   ELSE rendered.items[i] = props.violations[i]
        ELSE rendered.view = "No violations detected" /\ rendered.items = <<>>

C30_Witness ==
    /\ rendered.view = "Violations"
    /\ Len(props.violations) = 3
    /\ props.violations[1].isString
    /\ ~ props.violations[2].isString
    /\ props.violations[3].isString
    /\ props.violations[1] # props.violations[3]

====
